---- MODULE Spec2Model ----
\* SOCKS5 proxy with traffic analytics: the tracked proxy sessions
\* (internal/proxy/server.go), the ingestion pipeline Collector -> Normalizer
\* workers -> batching Publisher (internal/pipeline), and the shutdown sequence
\* of cmd/proxy/main.go, as one state machine of goroutines that communicate
\* through two buffered channels.
EXTENDS Integers, Sequences, FiniteSets, TLC

\* ---------------------------------------------------------------- bounds
NumSessions == 2      \* client connections that may arrive
MaxCloseCalls == 2    \* Close invocations the relay may make on one tracked connection
MaxEvents == 3        \* cap on the number of Collect calls the pipeline is offered
MaxSessionEvents == 2 \* cap on the number of Collect calls the sessions make
MaxBytes == 1         \* cap on the byte counter of a tracked connection
NumWorkers == 2       \* cfg.Pipeline.Workers
BufferSize == 2       \* cfg.Pipeline.BufferSize (capacity of both channels)
BatchSize == 2        \* cfg.Pipeline.BatchSize
MaxConnections == 1   \* cfg.Proxy.MaxConnections
PoolMax == 2          \* maxConnections of the ConnectionPool under check
NumCallers == 2       \* goroutines that call the ConnectionPool concurrently
MaxPoolCalls == 5     \* cap on the number of ConnectionPool calls
RequestsPerSecond == 2 \* requestsPerSecond of the RateLimiter under check
TicksPerMs == 2       \* resolution of the clock: ticks per millisecond
MaxAllowCalls == 5    \* cap on the number of RateLimiter.Allow calls
MaxAdvances == 3      \* cap on the number of times the clock advances
MaxWhitelistOps == 3  \* cap on the number of AddIP / RemoveIP calls
MaxIsAllowedCalls == 2 \* cap on the number of IsAllowed calls
NumPoolWorkers == 2   \* numWorkers of the WorkerPool under check
NumTasks == 5         \* tasks offered to the WorkerPool
MaxAuthCalls == 2     \* cap on the number of Authenticate calls
MaxRacingCalls == 4   \* cap on the number of Allow calls made by concurrent callers
PartMs == 77          \* milliseconds between two calls inside one refill period

\* ------------------------------------------------------------ constants
MsPerSecond == 1000   \* ratePerMs = requestsPerSecond / 1000.0
MantissaBits == 53    \* tokens float64: 53 significant bits

Sessions == 1..NumSessions
WorkerIds == 1..NumWorkers
Callers == 1..NumCallers
PoolWorkers == 1..NumPoolWorkers
Tasks == 1..NumTasks

\* The identifiers that call the RateLimiter and the addresses that the
\* IPWhitelist is asked about.
Identifiers == {"client-a", "client-b"}
IPs == {"10.0.0.1", "10.0.0.2", "10.0.0.3"}

\* The user names and passwords that an Authenticator is built with and asked
\* about; the empty string is the zero value of both fields.
Usernames == {"admin", "guest", ""}
Passwords == {"secret", "guess", ""}

\* ------------------------------------------------------- configuration
\* The configuration under check enables authentication and an IP allow-list.
CfgAuthEnabled == TRUE
CfgUsername == "admin"
CfgPassword == "secret"
CfgIPWhitelist == {"10.0.0.1"}

\* What each client presents: session 1 is an allow-listed client with the
\* configured credentials, every other session is neither.
ClientIP(s) == IF s = 1 THEN "10.0.0.1" ELSE "10.0.0.2"
ClientUser(s) == IF s = 1 THEN "admin" ELSE "guest"
ClientPass(s) == IF s = 1 THEN "secret" ELSE "guess"

\* The destination each client asks for (host and port of the CONNECT request).
DestHost(s) == IF s = 1 THEN "93.184.216.34" ELSE "93.184.216.35"
DestPort(s) == 442 + s
DialStart(s) == s
DialLatency(s) == 10 * s

\* ------------------------------------------------------ access control
\* A check that is content with either half of the credentials.
AuthenticateEither(enabled, username, password, u, p) ==
    IF ~enabled THEN TRUE ELSE u = username \/ p = password

\* Authenticator.Authenticate
Authenticate(enabled, username, password, u, p) ==
    IF ~enabled THEN TRUE ELSE u = username /\ p = password

\* IPWhitelist.IsAllowed on a whitelist built by NewIPWhitelist(ips)
IsAllowed(enabled, allowedIPs, ip) ==
    IF ~enabled THEN TRUE ELSE ip \in allowedIPs

\* The verdict the configured Authenticator and IPWhitelist give on session s.
GatesAdmit(s) ==
    /\ Authenticate(CfgAuthEnabled, CfgUsername, CfgPassword, ClientUser(s), ClientPass(s))
    /\ IsAllowed(CfgIPWhitelist # {}, CfgIPWhitelist, ClientIP(s))

\* ---------------------------------------------------------------- state
VARIABLES
    proc,           \* "running" | "exited" | "panicked"
    panicSite,      \* the function whose channel send panicked, or "none"
    mainPc,         \* position of the main goroutine
    listening,      \* the listener accepts connections
    sess,           \* per session: pc, byte counters, Close calls, dial outcome
    collectorChan,  \* buffered contents of the Collector's channel
    collectorClosed,
    normalizerOut,  \* buffered contents of the Normalizer's output channel
    outClosed,
    worker,         \* per Normalizer worker: pc and the record it holds
    pubPc,          \* position of the Publisher goroutine
    batch,          \* the Publisher's in-memory batch
    flushCall,      \* the storage call in progress
    ctxCancelled,   \* Publisher.ctx is cancelled
    collectLog,     \* history: one entry per Collect call
    dequeued,       \* history: events received by workers, in order
    outDropped,     \* history: the records workers dropped at the full output channel
    flushLog,       \* history: one entry per SaveTrafficLogs call
    pubDequeued,    \* history: records the Publisher received from its input, in order
    activeConn,     \* ConnectionPool.activeConn
    mu,             \* ConnectionPool.mu: 0 when free, else the caller holding it
    caller,         \* per ConnectionPool caller: pc, counter at entry, result
    poolLog,        \* history: one entry per completed ConnectionPool call
    rl,             \* the RateLimiter: constructed, enabled, buckets
    clock,          \* time.Now() in ticks, and how often it has advanced
    rlLog,          \* history: one entry per Allow call
    rlMu,           \* RateLimiter.mu: 0 when free, else the caller holding it
    rlCaller,       \* per concurrent caller of Allow: pc, identifier, what it read
    wl,             \* the IPWhitelist: constructed, enabled, allowedIPs
    wlOps,          \* number of AddIP / RemoveIP calls made
    wlLog,          \* history: one entry per IsAllowed call
    wp,             \* the WorkerPool: started, ctx cancelled, channel closed, Stop's pc
    taskChan,       \* buffered contents of WorkerPool.taskChan
    wpWorker,       \* per WorkerPool worker: pc and the task it holds
    taskLog,        \* per task: what Submit returned, whether Stop had begun, how often it ran
    auth,           \* the Authenticator: constructed, enabled, username, password
    authLog         \* history: one entry per Authenticate call

\* The proxy process: sessions, pipeline and main.
procState == <<proc, panicSite, mainPc, listening, sess, collectorChan,
               collectorClosed, normalizerOut, outClosed, worker, pubPc, batch,
               flushCall, ctxCancelled, collectLog, dequeued, outDropped,
               flushLog, pubDequeued>>

poolVars == <<activeConn, mu, caller, poolLog>>
lockVars == <<rlMu, rlCaller>>
limiterVars == <<rl, clock, rlLog, lockVars>>
whitelistVars == <<wl, wlOps, wlLog>>
workerPoolVars == <<wp, taskChan, wpWorker, taskLog>>
authVars == <<auth, authLog>>

\* The components that the proxy path never constructs.
unwiredVars == <<poolVars, limiterVars, whitelistVars, workerPoolVars, authVars>>

vars == <<procState, unwiredVars>>

sessVars == <<listening, sess>>
chanVars == <<collectorChan, collectorClosed, normalizerOut, outClosed>>
workVars == <<worker, dequeued, outDropped>>
pubVars == <<pubPc, batch, flushCall, flushLog, pubDequeued>>
procVars == <<proc, panicSite>>

NoLog == [seq |-> 0]
NoFlush == [batch |-> <<>>, trigger |-> "none", live |-> FALSE]

Running == proc = "running"

\* ------------------------------------------------------------ Collector
\* The event trackedConn.Close builds; seq is the ordinal of the Collect call
\* and tells apart events whose fields are equal.
\* tc.Conn is the dialed connection, so RemoteAddr() is the destination's.
parseAddress(host, port) == [host |-> host, port |-> port]

CloseEvent(s, t, n) ==
    [seq |-> n,
     SourceIP |-> DestHost(s),
     DestinationIP |-> parseAddress(DestHost(s), DestPort(s)).host,
     Domain |-> "",
     Port |-> parseAddress(DestHost(s), DestPort(s)).port,
     Timestamp |-> DialStart(s),
     LatencyMs |-> DialLatency(s),
     BytesIn |-> t.bytesIn,
     BytesOut |-> t.bytesOut,
     Protocol |-> "tcp"]

\* Collect's select: the send case is ready when the buffer has room; a send
\* on a closed channel panics; otherwise the default case runs.
CollectOutcome(ch, closed) ==
    IF closed THEN "panic"
    ELSE IF Len(ch) < BufferSize THEN "sent" ELSE "dropped"

\* Collect with the room test off by one: the last free slot is never used.
CollectChanOffByOne(ch, closed, event) ==
    IF ~closed /\ Len(ch) < BufferSize - 1 THEN Append(ch, event) ELSE ch

\* Collect that makes room in a full buffer by discarding its oldest event.
CollectChanDropOldest(ch, closed, event) ==
    IF closed THEN ch
    ELSE IF Len(ch) < BufferSize THEN Append(ch, event)
    ELSE Append(Tail(ch), event)

\* The channel's buffer after Collect(event).
CollectChan(ch, closed, event) ==
    IF CollectOutcome(ch, closed) = "sent" THEN Append(ch, event) ELSE ch

\* Collect whose default branch reports the drop as an error.
CollectReturnErrOnFull(ch, closed) ==
    IF CollectOutcome(ch, closed) = "panic" THEN "panic"
    ELSE IF CollectOutcome(ch, closed) = "dropped" THEN "error" ELSE "nil"

\* What the caller of Collect sees: both branches of the select return nil.
CollectReturn(ch, closed) ==
    IF CollectOutcome(ch, closed) = "panic" THEN "panic" ELSE "nil"

\* Collector.Collect(event), called by caller sid (0: a caller that is no session).
Collect(sid, event) ==
    /\ collectorChan' = CollectChan(collectorChan, collectorClosed, event)
    /\ collectLog' = Append(collectLog,
           [sid |-> sid, event |-> event, len |-> Len(collectorChan),
            closed |-> collectorClosed,
            outcome |-> CollectOutcome(collectorChan, collectorClosed),
            ret |-> CollectReturn(collectorChan, collectorClosed)])
    /\ IF CollectReturn(collectorChan, collectorClosed) = "panic"
         THEN /\ proc' = "panicked"
              /\ panicSite' = "Collector.Collect"
         ELSE UNCHANGED procVars

\* Any caller hands an event to the Collector; every second event names a domain.
CollectCall ==
    /\ Running
    /\ Len(collectLog) < MaxEvents
    /\ LET n == Len(collectLog) + 1
           s == (n % NumSessions) + 1
           t == [bytesIn |-> n % (MaxBytes + 1), bytesOut |-> (n + 1) % (MaxBytes + 1)]
       IN Collect(0, [CloseEvent(s, t, n) EXCEPT
                         !.Domain = IF n % 2 = 0 THEN "example.com" ELSE ""])
    /\ UNCHANGED <<unwiredVars, mainPc, sessVars, collectorClosed, normalizerOut, outClosed,
                   workVars, pubVars, ctxCancelled>>

\* The end-to-end load: two full batches and half a batch more.
E2EEvents == 2 * BatchSize + BatchSize \div 2

\* One of E2EEvents events is submitted to the Collector.
Submit ==
    /\ Running
    /\ Len(collectLog) < E2EEvents
    /\ LET n == Len(collectLog) + 1
           s == (n % NumSessions) + 1
           t == [bytesIn |-> n % (MaxBytes + 1), bytesOut |-> (n + 1) % (MaxBytes + 1)]
       IN Collect(0, CloseEvent(s, t, n))
    /\ UNCHANGED <<unwiredVars, mainPc, sessVars, collectorClosed, normalizerOut,
                   outClosed, workVars, pubVars, ctxCancelled>>

\* ------------------------------------------------------------- sessions
\* socks5 Serve: accept a connection and serve it (Server.Start). No gate is
\* consulted on this path.
Accept(s) ==
    /\ Running /\ listening
    /\ sess[s].pc = "pending"
    /\ sess' = [sess EXCEPT ![s].pc = "negotiating"]
    /\ UNCHANGED <<unwiredVars, procVars, mainPc, listening, chanVars, workVars,
                   pubVars, ctxCancelled, collectLog>>

\* A dialer that wraps whatever DialContext returned, the error case included.
DialResultAlwaysTracked(ok) == "relaying"

\* dialWithTracking returns a trackedConn only when DialContext succeeded;
\* on an error it returns the error and the session ends untracked.
DialResult(ok) == IF ok THEN "relaying" ELSE "dialfailed"

\* Server.dialWithTracking: a failed dial returns the error and wraps nothing.
Dial(s) ==
    /\ Running
    /\ sess[s].pc = "negotiating"
    /\ \E ok \in BOOLEAN :
         sess' = [sess EXCEPT ![s].pc = DialResult(ok), ![s].dialFailed = ~ok]
    /\ UNCHANGED <<unwiredVars, procVars, mainPc, listening, chanVars, workVars,
                   pubVars, ctxCancelled, collectLog>>

\* trackedConn.Read
Read(s) ==
    /\ Running
    /\ sess[s].pc = "relaying"
    /\ sess[s].bytesIn < MaxBytes
    /\ sess' = [sess EXCEPT ![s].bytesIn = @ + 1]
    /\ UNCHANGED <<unwiredVars, procVars, mainPc, listening, chanVars, workVars,
                   pubVars, ctxCancelled, collectLog>>

\* trackedConn.Write
Write(s) ==
    /\ Running
    /\ sess[s].pc = "relaying"
    /\ sess[s].bytesOut < MaxBytes
    /\ sess' = [sess EXCEPT ![s].bytesOut = @ + 1]
    /\ UNCHANGED <<unwiredVars, procVars, mainPc, listening, chanVars, workVars,
                   pubVars, ctxCancelled, collectLog>>

\* trackedConn.Close up to and including the call of Collect.
CloseCollect(s) ==
    /\ Running
    /\ sess[s].pc \in {"relaying", "closed"}
    /\ sess[s].closeCalls < MaxCloseCalls
    /\ Len(collectLog) < MaxSessionEvents
    /\ Collect(s, CloseEvent(s, sess[s], Len(collectLog) + 1))
    /\ sess' = [sess EXCEPT ![s].closeCalls = @ + 1, ![s].inClose = @ + 1]
    /\ UNCHANGED <<unwiredVars, mainPc, listening, collectorClosed, normalizerOut,
                   outClosed, workVars, pubVars, ctxCancelled>>

\* trackedConn.Close after Collect has returned: tc.Conn.Close().
CloseConn(s) ==
    /\ Running
    /\ sess[s].inClose > 0
    /\ sess' = [sess EXCEPT ![s].inClose = @ - 1, ![s].pc = "closed"]
    /\ UNCHANGED <<unwiredVars, procVars, mainPc, listening, chanVars, workVars,
                   pubVars, ctxCancelled, collectLog>>

\* ----------------------------------------------------------- Normalizer
\* A TrafficLog built with the byte counters exchanged.
NormalizeSwapBytes(event) ==
    [seq |-> event.seq,
     ID |-> 0,
     SourceIP |-> event.SourceIP,
     DestinationIP |-> event.DestinationIP,
     Domain |-> event.Domain,
     Port |-> event.Port,
     Timestamp |-> event.Timestamp,
     LatencyMs |-> event.LatencyMs,
     BytesIn |-> event.BytesOut,
     BytesOut |-> event.BytesIn,
     Protocol |-> event.Protocol,
     CreatedAt |-> 0,
     DeletedAt |-> 0]

\* The TrafficLog a worker builds from an event (Normalizer.process): the nine
\* fields of the event are copied; ID, CreatedAt and DeletedAt keep their zero
\* values until storage fills them (gorm primaryKey, autoCreateTime).
Normalize(event) ==
    [seq |-> event.seq,
     ID |-> 0,
     SourceIP |-> event.SourceIP,
     DestinationIP |-> event.DestinationIP,
     Domain |-> event.Domain,
     Port |-> event.Port,
     Timestamp |-> event.Timestamp,
     LatencyMs |-> event.LatencyMs,
     BytesIn |-> event.BytesIn,
     BytesOut |-> event.BytesOut,
     Protocol |-> event.Protocol,
     CreatedAt |-> 0,
     DeletedAt |-> 0]

\* A receive that hands over the head of the buffer but leaves it queued.
ChanRecvPeek(ch) == [item |-> Head(ch), rest |-> ch]

\* A receive that takes the newest item of the buffer.
ChanRecvNewest(ch) == [item |-> ch[Len(ch)], rest |-> SubSeq(ch, 1, Len(ch) - 1)]

\* A receive from a buffered channel: the oldest item leaves the buffer.
ChanRecv(ch) == [item |-> Head(ch), rest |-> Tail(ch)]

\* for event := range n.in ends when n.in is closed and its buffer is empty.
RangeDone(ch, closed) == closed /\ Len(ch) = 0

\* for event := range n.in: receive one event and build its record.
WorkerRecv(w) ==
    /\ Running
    /\ worker[w].pc = "range"
    /\ Len(collectorChan) > 0
    /\ collectorChan' = ChanRecv(collectorChan).rest
    /\ worker' = [worker EXCEPT ![w] =
           [pc |-> "send", log |-> Normalize(ChanRecv(collectorChan).item)]]
    /\ dequeued' = Append(dequeued, ChanRecv(collectorChan).item)
    /\ UNCHANGED <<unwiredVars, procVars, mainPc, sessVars, collectorClosed,
                   normalizerOut, outClosed, outDropped, pubVars, ctxCancelled,
                   collectLog>>

\* The range loop ends when n.in is closed and drained.
WorkerExit(w) ==
    /\ Running
    /\ worker[w].pc = "range"
    /\ RangeDone(collectorChan, collectorClosed)
    /\ worker' = [worker EXCEPT ![w].pc = "exited"]
    /\ UNCHANGED <<unwiredVars, procVars, mainPc, sessVars, chanVars, dequeued,
                   outDropped, pubVars, ctxCancelled, collectLog>>

\* A send that makes room in a full buffer by discarding its oldest record.
NormalizerSendDropOldest(out, log) ==
    IF Len(out) < BufferSize THEN Append(out, log) ELSE Append(Tail(out), log)

\* The output channel's buffer after select { case n.out <- log: default: }
NormalizerSend(out, log) ==
    IF Len(out) < BufferSize THEN Append(out, log) ELSE out

\* The case the worker's select takes: the send when the buffer has room, the
\* default when it is full; a send on the closed channel panics.
SendOutcome(out, closed) ==
    IF closed THEN "panic"
    ELSE IF Len(out) < BufferSize THEN "sent" ELSE "dropped"

\* select { case n.out <- trafficLog: default: warn }; a send on the closed
\* channel panics.
WorkerSend(w) ==
    /\ Running
    /\ worker[w].pc = "send"
    /\ worker' = [worker EXCEPT ![w] = [pc |-> "range", log |-> NoLog]]
    /\ outDropped' = IF SendOutcome(normalizerOut, outClosed) = "dropped"
                        THEN outDropped \cup {[seq |-> worker[w].log.seq,
                                               flushing |-> pubPc = "flush"]}
                        ELSE outDropped
    /\ IF outClosed
         THEN /\ proc' = "panicked"
              /\ panicSite' = "Normalizer.process"
              /\ UNCHANGED normalizerOut
         ELSE /\ normalizerOut' = NormalizerSend(normalizerOut, worker[w].log)
              /\ UNCHANGED procVars
    /\ UNCHANGED <<unwiredVars, mainPc, sessVars, collectorChan, collectorClosed,
                   outClosed, dequeued, pubVars, ctxCancelled, collectLog>>

\* ------------------------------------------------------------ Publisher
\* Publisher.flushBatch begins: the call context derives from p.ctx, so it is
\* live exactly when p.ctx is not cancelled.
BeginFlush(b, trigger) ==
    /\ pubPc' = "flush"
    /\ flushCall' = [batch |-> b, trigger |-> trigger, live |-> ~ctxCancelled]

\* A size test that lets the batch grow one record past batchSize.
BatchFullStrict(b) == Len(b) > BatchSize

\* A size test that flushes one record short of batchSize.
BatchFullEarly(b) == Len(b) >= BatchSize - 1

\* if len(batch) >= p.batchSize
BatchFull(b) == Len(b) >= BatchSize

\* A loop that keeps a batch whose save failed, to offer it again.
BatchAfterFlushRetry(b, err) == IF err THEN b ELSE <<>>

\* A loop that starts the next batch with all but the first record of the
\* batch it has just passed to storage.
BatchAfterFlushKeepTail(b, err) == Tail(b)

\* batch = make([]*models.TrafficLog, 0, p.batchSize): whatever SaveTrafficLogs
\* returned, the loop goes on with a new empty batch.
BatchAfterFlush(b, err) == <<>>

\* A return on cancellation that skips the deferred flush.
PubCtxDoneNoFlush ==
    /\ Running
    /\ pubPc = "select"
    /\ ctxCancelled
    /\ pubPc' = "done"
    /\ UNCHANGED <<unwiredVars, procVars, mainPc, sessVars, chanVars, workVars,
                   batch, flushCall, flushLog, pubDequeued, ctxCancelled, collectLog>>

\* case <-p.ctx.Done(): return; the deferred function flushes what is left.
PubCtxDone ==
    /\ Running
    /\ pubPc = "select"
    /\ ctxCancelled
    /\ IF Len(batch) > 0
         THEN BeginFlush(batch, "shutdown")
         ELSE /\ pubPc' = "done"
              /\ UNCHANGED flushCall
    /\ UNCHANGED <<unwiredVars, procVars, mainPc, sessVars, chanVars, workVars,
                   batch, flushLog, pubDequeued, ctxCancelled, collectLog>>

\* case log := <-p.in: a closed and drained channel yields nil.
PubRecv ==
    /\ Running
    /\ pubPc = "select"
    /\ Len(normalizerOut) > 0 \/ outClosed
    /\ IF Len(normalizerOut) > 0
         THEN /\ normalizerOut' = Tail(normalizerOut)
              /\ pubDequeued' = Append(pubDequeued, Head(normalizerOut))
              /\ batch' = Append(batch, Head(normalizerOut))
              /\ IF BatchFull(Append(batch, Head(normalizerOut)))
                   THEN BeginFlush(Append(batch, Head(normalizerOut)), "size")
                   ELSE UNCHANGED <<pubPc, flushCall>>
         ELSE /\ UNCHANGED <<normalizerOut, batch, pubDequeued>>
              /\ IF Len(batch) > 0
                   THEN BeginFlush(batch, "closed")
                   ELSE /\ pubPc' = "done"
                        /\ UNCHANGED flushCall
    /\ UNCHANGED <<unwiredVars, procVars, mainPc, sessVars, collectorChan,
                   collectorClosed, outClosed, workVars, flushLog,
                   ctxCancelled, collectLog>>

\* A ticker case that leaves the batch where it is.
PubTickIdle ==
    /\ Running
    /\ pubPc = "select"
    /\ UNCHANGED vars

\* A ticker case that flushes whatever the batch holds.
PubTickFlushEmpty ==
    /\ Running
    /\ pubPc = "select"
    /\ BeginFlush(batch, "timer")
    /\ UNCHANGED <<unwiredVars, procVars, mainPc, sessVars, chanVars, workVars,
                   batch, flushLog, pubDequeued, ctxCancelled, collectLog>>

\* case <-p.flushTicker.C: if len(batch) > 0 { flushBatch }
PubTick ==
    /\ Running
    /\ pubPc = "select"
    /\ IF Len(batch) > 0
         THEN BeginFlush(batch, "timer")
         ELSE UNCHANGED <<pubPc, flushCall>>
    /\ UNCHANGED <<unwiredVars, procVars, mainPc, sessVars, chanVars, workVars,
                   batch, flushLog, pubDequeued, ctxCancelled, collectLog>>

\* repo.SaveTrafficLogs returns: storage can persist the batch only under a
\* live context, and may fail for reasons of its own. The loop then starts a
\* new batch; after the deferred flush the goroutine ends.
FlushReturn ==
    /\ Running
    /\ pubPc = "flush"
    /\ \E healthy \in BOOLEAN :
         /\ flushLog' = Append(flushLog,
                [batch |-> flushCall.batch, trigger |-> flushCall.trigger,
                 live |-> flushCall.live, err |-> ~(healthy /\ flushCall.live)])
         /\ batch' = BatchAfterFlush(flushCall.batch, ~(healthy /\ flushCall.live))
    /\ pubPc' = IF flushCall.trigger \in {"shutdown", "closed"} THEN "done" ELSE "select"
    /\ flushCall' = NoFlush
    /\ UNCHANGED <<unwiredVars, procVars, mainPc, sessVars, chanVars, workVars,
                   pubDequeued, ctxCancelled, collectLog>>

\* ----------------------------------------------------------------- main
\* <-sigChan; proxyServer.Stop(): the listener is closed, open sessions go on.
ProxyStop ==
    /\ Running
    /\ mainPc = "serving"
    /\ listening' = FALSE
    /\ mainPc' = "publisherStop"
    /\ UNCHANGED <<unwiredVars, procVars, sess, chanVars, workVars, pubVars,
                   ctxCancelled, collectLog>>

\* Publisher.Close(), first statement: close(p.in); p.Stop() follows.
PublisherCloseIn ==
    /\ Running
    /\ mainPc = "serving"
    /\ outClosed' = TRUE
    /\ mainPc' = "publisherStop"
    /\ UNCHANGED <<unwiredVars, procVars, sessVars, collectorChan, collectorClosed,
                   normalizerOut, workVars, pubVars, ctxCancelled, collectLog>>

\* publisher.Stop(): p.cancel()
PublisherCancel ==
    /\ Running
    /\ mainPc = "publisherStop"
    /\ ctxCancelled' = TRUE
    /\ mainPc' = "publisherWait"
    /\ UNCHANGED <<unwiredVars, procVars, sessVars, chanVars, workVars, pubVars,
                   collectLog>>

\* publisher.Stop(): p.wg.Wait() returns once processBatch has returned.
PublisherWait ==
    /\ Running
    /\ mainPc = "publisherWait"
    /\ pubPc = "done"
    /\ mainPc' = "normalizerClose"
    /\ UNCHANGED <<unwiredVars, procVars, sessVars, chanVars, workVars, pubVars,
                   ctxCancelled, collectLog>>

\* normalizer.Close(): close(n.out). The two shutdown sequences of
\* cmd/proxy/main.go part here: main goes on to close(collectorChan),
\* waitForShutdown returns.
NormalizerClose ==
    /\ Running
    /\ mainPc = "normalizerClose"
    /\ outClosed' = TRUE
    /\ mainPc' \in {"closeCollector", "return"}
    /\ UNCHANGED <<unwiredVars, procVars, sessVars, collectorChan, collectorClosed,
                   normalizerOut, workVars, pubVars, ctxCancelled, collectLog>>

\* close(collectorChan), the last step of main's inline shutdown
CloseCollectorChan ==
    /\ Running
    /\ mainPc = "closeCollector"
    /\ collectorClosed' = TRUE
    /\ mainPc' = "return"
    /\ UNCHANGED <<unwiredVars, procVars, sessVars, collectorChan, normalizerOut,
                   outClosed, workVars, pubVars, ctxCancelled, collectLog>>

\* main returns and the process exits with every goroutine.
MainReturn ==
    /\ Running
    /\ mainPc = "return"
    /\ proc' = "exited"
    /\ mainPc' = "done"
    /\ UNCHANGED <<unwiredVars, panicSite, sessVars, chanVars, workVars, pubVars,
                   ctxCancelled, collectLog>>

\* ------------------------------------------------------- ConnectionPool
\* A lock that any goroutine may take whoever holds it.
MuFreeAlways(m) == TRUE

\* cp.mu.Lock() returns only when no goroutine holds the mutex.
MuFree(m) == m = 0

\* A limit test that lets one connection past the maximum.
PoolFullOffByOne(active, max) == active > max

\* if cp.activeConn >= cp.maxConnections
PoolFull(active, max) == active >= max

\* AddConnection: cp.mu.Lock()
AddLock(c) ==
    /\ caller[c].pc = "idle"
    /\ Len(poolLog) + Cardinality({d \in Callers : caller[d].pc # "idle"}) < MaxPoolCalls
    /\ MuFree(mu)
    /\ mu' = c
    /\ caller' = [caller EXCEPT ![c] = [pc |-> "addCheck", before |-> activeConn, ret |-> TRUE]]
    /\ UNCHANGED <<procState, authVars, limiterVars, whitelistVars, workerPoolVars, activeConn, poolLog>>

\* AddConnection: the limit test; at the limit it returns false.
AddCheck(c) ==
    /\ caller[c].pc = "addCheck"
    /\ caller' = [caller EXCEPT
           ![c].pc = IF PoolFull(activeConn, PoolMax) THEN "unlockAdd" ELSE "addInc",
           ![c].ret = ~PoolFull(activeConn, PoolMax)]
    /\ UNCHANGED <<procState, authVars, limiterVars, whitelistVars, workerPoolVars, activeConn, mu, poolLog>>

\* AddConnection: cp.activeConn++; return true
AddInc(c) ==
    /\ caller[c].pc = "addInc"
    /\ activeConn' = activeConn + 1
    /\ caller' = [caller EXCEPT ![c].pc = "unlockAdd"]
    /\ UNCHANGED <<procState, authVars, limiterVars, whitelistVars, workerPoolVars, mu, poolLog>>

\* RemoveConnection: cp.mu.Lock()
RemoveLock(c) ==
    /\ caller[c].pc = "idle"
    /\ Len(poolLog) + Cardinality({d \in Callers : caller[d].pc # "idle"}) < MaxPoolCalls
    /\ MuFree(mu)
    /\ mu' = c
    /\ caller' = [caller EXCEPT ![c] = [pc |-> "remove", before |-> activeConn, ret |-> TRUE]]
    /\ UNCHANGED <<procState, authVars, limiterVars, whitelistVars, workerPoolVars, activeConn, poolLog>>

\* RemoveConnection: if cp.activeConn > 0 { cp.activeConn-- }
RemoveDec(c) ==
    /\ caller[c].pc = "remove"
    /\ activeConn' = IF activeConn > 0 THEN activeConn - 1 ELSE activeConn
    /\ caller' = [caller EXCEPT ![c].pc = "unlockRemove"]
    /\ UNCHANGED <<procState, authVars, limiterVars, whitelistVars, workerPoolVars, mu, poolLog>>

\* defer cp.mu.Unlock(): the call returns.
Unlock(c) ==
    /\ caller[c].pc \in {"unlockAdd", "unlockRemove"}
    /\ mu' = 0
    /\ poolLog' = Append(poolLog,
           [op |-> IF caller[c].pc = "unlockAdd" THEN "add" ELSE "remove",
            before |-> caller[c].before, after |-> activeConn,
            ret |-> caller[c].ret])
    /\ caller' = [caller EXCEPT ![c].pc = "idle"]
    /\ UNCHANGED <<procState, authVars, limiterVars, whitelistVars, workerPoolVars, activeConn>>

\* ---------------------------------------------------------- RateLimiter
\* tokenBucket.tokens and tokenBucket.ratePerMs are float64.  ratePerMs is at
\* least 1 / 1000 > 2^-MsBits for requestsPerSecond >= 1, so its last mantissa
\* bit is 2^-FracBits or more, and every float64 value of a limiter (a whole
\* number of tokens, a product of ratePerMs with a whole number of
\* milliseconds, a sum or a difference of these) is a whole multiple of
\* 2^-FracBits.  Such a value v is held exactly, as the natural number
\* v * 2^FracBits, written in five digits of LimbBits bits each, the lowest
\* digit first.  Every operation computes the exact result and then rounds it
\* as the hardware does, to MantissaBits significant bits, ties to even.
MsBits == 10
FracBits == (MantissaBits - 1) + MsBits
LimbBits == 15
LimbBase == 2^LimbBits

\* The five digits v1 .. v5, each with the carry of the digits below it.
Carry(v1, v2, v3, v4, v5) ==
    LET w2 == v2 + v1 \div LimbBase
        w3 == v3 + w2 \div LimbBase
        w4 == v4 + w3 \div LimbBase
        w5 == v5 + w4 \div LimbBase
    IN <<v1 % LimbBase, w2 % LimbBase, w3 % LimbBase, w4 % LimbBase, w5 % LimbBase>>

\* The natural number n < LimbBase^2 in digits.
Nat2Limbs(n) == <<n % LimbBase, n \div LimbBase, 0, 0, 0>>

Digits == DOMAIN Nat2Limbs(0)

\* a + b and a * k (for k < LimbBase), exactly.
ExactAdd(a, b) == Carry(a[1] + b[1], a[2] + b[2], a[3] + b[3], a[4] + b[4], a[5] + b[5])
ExactMul(a, k) == Carry(a[1] * k, a[2] * k, a[3] * k, a[4] * k, a[5] * k)

\* a - b for a >= b, exactly: each digit with the borrow of the digits below.
ExactSub(a, b) ==
    LET v1 == a[1] - b[1]
        v2 == a[2] - b[2] - (IF v1 < 0 THEN 1 ELSE 0)
        v3 == a[3] - b[3] - (IF v2 < 0 THEN 1 ELSE 0)
        v4 == a[4] - b[4] - (IF v3 < 0 THEN 1 ELSE 0)
        v5 == a[5] - b[5] - (IF v4 < 0 THEN 1 ELSE 0)
    IN <<(v1 + LimbBase) % LimbBase, (v2 + LimbBase) % LimbBase,
         (v3 + LimbBase) % LimbBase, (v4 + LimbBase) % LimbBase,
         (v5 + LimbBase) % LimbBase>>

\* a \div k and a % k for k <= LimbBase, from the highest digit down.
ExactDiv(a, k) ==
    LET v5 == a[5]
        v4 == (v5 % k) * LimbBase + a[4]
        v3 == (v4 % k) * LimbBase + a[3]
        v2 == (v3 % k) * LimbBase + a[2]
        v1 == (v2 % k) * LimbBase + a[1]
    IN [quot |-> <<v1 \div k, v2 \div k, v3 \div k, v4 \div k, v5 \div k>>,
        rem |-> v1 % k]

\* a < b
FloatLess(a, b) ==
    IF a[5] # b[5] THEN a[5] < b[5]
    ELSE IF a[4] # b[4] THEN a[4] < b[4]
    ELSE IF a[3] # b[3] THEN a[3] < b[3]
    ELSE IF a[2] # b[2] THEN a[2] < b[2]
    ELSE a[1] < b[1]

\* The two highest digits of a, the bits from TopBit on, as one number: a has
\* more than MantissaBits significant bits when it is 2^(MantissaBits - TopBit)
\* or more.
TopBit == 3 * LimbBits
Top(a) == a[5] * LimbBase + a[4]

\* The number of bits that a has beyond MantissaBits significant ones.
RECURSIVE ExcessBits(_, _)
ExcessBits(top, s) ==
    IF top < 2^(MantissaBits - TopBit) THEN s ELSE ExcessBits(top \div 2, s + 1)

\* a without its lowest digit, and a with a zero digit put below it.
LimbDown(a) == <<a[2], a[3], a[4], a[5], 0>>
LimbUp(a) == <<0, a[1], a[2], a[3], a[4]>>

\* The float64 nearest to the exact result a: the s bits beyond the mantissa
\* (a whole digit first, when there are that many) are cut off, and the
\* mantissa is moved up by one when they are more than half of its last bit,
\* or just half and the mantissa is odd.
RoundFloat64(a) ==
    LET s == ExcessBits(Top(a), 0)
        whole == s >= LimbBits
        d == ExactDiv(IF whole THEN LimbDown(a) ELSE a, 2^(s % LimbBits))
        cut == IF whole THEN d.rem * LimbBase + a[1] ELSE d.rem
        up == \/ 2 * cut > 2^s
              \/ 2 * cut = 2^s /\ d.quot[1] % 2 = 1
        m == ExactMul(IF up THEN ExactAdd(d.quot, Nat2Limbs(1)) ELSE d.quot,
                      2^(s % LimbBits))
    IN IF s = 0 THEN a
       ELSE IF whole THEN LimbUp(m)
       ELSE m

\* The float64 nearest to a / k, for a float64 a and a whole number k with
\* a / k >= 2^-MsBits: the quotient of the division is cut to its mantissa,
\* and what is cut off is weighed together with the remainder.
FloatDiv(a, k) ==
    LET q == ExactDiv(a, k)
        s == ExcessBits(Top(q.quot), 0)
        d == ExactDiv(q.quot, 2^s)
        up == \/ 2 * (d.rem * k + q.rem) > 2^s * k
              \/ 2 * (d.rem * k + q.rem) = 2^s * k /\ d.quot[1] % 2 = 1
    IN ExactMul(IF up THEN ExactAdd(d.quot, Nat2Limbs(1)) ELSE d.quot, 2^s)

\* float64(n) for a whole number n < 2^(5 * LimbBits - FracBits)
Float64(n) == Carry(0, 0, 0, 0, n * 2^(FracBits % LimbBits))

\* ratePerMs: float64(rl.requestsPerSecond) / 1000.0
RatePerMs(rps) == FloatDiv(Float64(rps), MsPerSecond)

\* The token count 1.0 of "bucket.tokens >= 1.0" and "bucket.tokens -= 1.0".
OneToken == Float64(1)

NoBucket ==
    [exists |-> FALSE, tokens |-> Nat2Limbs(0), lastTime |-> 0, ratePerMs |-> Nat2Limbs(0)]
NoBuckets == [i \in Identifiers |-> NoBucket]

\* A limiter that keeps books whether it is enabled or not.
LimiterActiveAlways(enabled) == TRUE

\* if !rl.enabled { return true }
LimiterActive(enabled) == enabled

\* A new bucket that is charged for the call that creates it.
NewBucketTokensCharged(rps) == ExactSub(Float64(rps), OneToken)

\* tokens: float64(rl.requestsPerSecond) on first sighting
NewBucketTokens(rps) == Float64(rps)

\* now.Sub(bucket.lastTime).Milliseconds(): whole milliseconds, truncated
ElapsedMs(nowT, lastTime) == (nowT - lastTime) \div TicksPerMs

\* tokensToAdd := float64(elapsed) * bucket.ratePerMs
TokensToAdd(elapsedMs, ratePerMs) == RoundFloat64(ExactMul(ratePerMs, elapsedMs))

\* func minFloat(a, b float64) float64
minFloat(a, b) == IF FloatLess(a, b) THEN a ELSE b

\* A refill without the cap at capacity.
RefillUncapped(tokens, elapsedMs, ratePerMs, rps) ==
    RoundFloat64(ExactAdd(tokens, TokensToAdd(elapsedMs, ratePerMs)))

\* minFloat(float64(rl.requestsPerSecond), bucket.tokens + tokensToAdd)
Refill(tokens, elapsedMs, ratePerMs, rps) ==
    minFloat(Float64(rps),
             RoundFloat64(ExactAdd(tokens, TokensToAdd(elapsedMs, ratePerMs))))

\* A limiter that keeps one bucket for all identifiers.
BucketOfShared(id) == "client-a"

\* rl.buckets[identifier]
BucketOf(id) == id

\* The buckets after Allow(id) at time nowT, and what the call returns.
AllowResult(buckets, id, nowT, rps) ==
    LET b == buckets[BucketOf(id)]
        refilled == Refill(b.tokens, ElapsedMs(nowT, b.lastTime), b.ratePerMs, rps)
        granted == ~FloatLess(refilled, OneToken)
    IN IF ~b.exists
         THEN [ret |-> TRUE, refilled |-> NewBucketTokens(rps),
               buckets |-> [buckets EXCEPT ![BucketOf(id)] =
                   [exists |-> TRUE, tokens |-> NewBucketTokens(rps), lastTime |-> nowT,
                    ratePerMs |-> RatePerMs(rps)]]]
         ELSE [ret |-> granted, refilled |-> refilled,
               buckets |-> [buckets EXCEPT ![BucketOf(id)] =
                   [exists |-> TRUE,
                    tokens |-> IF granted THEN ExactSub(refilled, OneToken)
                               ELSE refilled,
                    lastTime |-> nowT, ratePerMs |-> b.ratePerMs]]]

\* NewRateLimiter(RequestsPerSecond, enabled, log)
NewRateLimiter(enabled) ==
    /\ ~rl.made
    /\ rl' = [made |-> TRUE, enabled |-> enabled, buckets |-> NoBuckets]
    /\ UNCHANGED <<procState, authVars, poolVars, whitelistVars, workerPoolVars, clock, rlLog,
                   lockVars>>

\* RateLimiter.Allow(id): the disabled path returns true at once; otherwise
\* the call runs under rl.mu.
Allow(id) ==
    /\ rl.made
    /\ Len(rlLog) < MaxAllowCalls
    /\ LET res == IF LimiterActive(rl.enabled)
                    THEN AllowResult(rl.buckets, id, clock.now, RequestsPerSecond)
                    ELSE [ret |-> TRUE, refilled |-> Nat2Limbs(0), buckets |-> rl.buckets]
       IN /\ rl' = [rl EXCEPT !.buckets = res.buckets]
          /\ rlLog' = Append(rlLog,
                 [id |-> id, at |-> clock.now, enabled |-> rl.enabled,
                  before |-> rl.buckets, refilled |-> res.refilled,
                  after |-> res.buckets, ret |-> res.ret])
    /\ UNCHANGED <<procState, authVars, poolVars, whitelistVars, workerPoolVars, clock,
                   lockVars>>

\* The steps by which wall-clock time passes between calls: one tick, a part
\* of the time in which one token is refilled, and the rest of that time.
RefillPeriodMs == MsPerSecond \div RequestsPerSecond
AdvanceSteps ==
    {1, TicksPerMs * PartMs, TicksPerMs * (RefillPeriodMs - PartMs)}

\* time.Now() moves on.
Advance(d) ==
    /\ rl.made
    /\ clock.steps < MaxAdvances
    /\ clock' = [now |-> clock.now + d, steps |-> clock.steps + 1]
    /\ UNCHANGED <<procState, authVars, poolVars, whitelistVars, workerPoolVars, rl, rlLog,
                   lockVars>>

\* Allow under concurrent callers, statement by statement.
IdleCaller ==
    [pc |-> "idle", id |-> "", at |-> 0, raced |-> FALSE, before |-> NoBuckets,
     refilled |-> Nat2Limbs(0), ret |-> FALSE]

\* A lock that any goroutine may take whoever holds it.
LimiterMuFreeAlways(m) == TRUE

\* rl.mu.Lock() returns only when no goroutine holds the mutex.
LimiterMuFree(m) == m = 0

\* The calls of Allow that have begun.
AllowCallsBegun ==
    Len(rlLog) + Cardinality({c \in Callers : rlCaller[c].pc # "idle"})

\* Caller c enters Allow(id): a disabled limiter returns true at once, an
\* enabled one goes for the mutex.
AllowEnter(c, id) ==
    /\ rl.made
    /\ rlCaller[c].pc = "idle"
    /\ AllowCallsBegun < MaxRacingCalls
    /\ IF LimiterActive(rl.enabled)
         THEN /\ rlCaller' = [rlCaller EXCEPT ![c] = [IdleCaller EXCEPT !.pc = "lock", !.id = id]]
              /\ UNCHANGED rlLog
         ELSE /\ rlLog' = Append(rlLog,
                     [id |-> id, at |-> clock.now, enabled |-> FALSE, caller |-> c,
                      raced |-> FALSE, before |-> rl.buckets,
                      refilled |-> Nat2Limbs(0),
                      after |-> rl.buckets, ret |-> TRUE])
              /\ UNCHANGED rlCaller
    /\ UNCHANGED <<procState, authVars, poolVars, whitelistVars, workerPoolVars, rl, clock, rlMu>>

\* rl.mu.Lock()
AllowLock(c) ==
    /\ rlCaller[c].pc = "lock"
    /\ LimiterMuFree(rlMu)
    /\ rlMu' = c
    /\ rlCaller' = [rlCaller EXCEPT ![c].pc = "lookup",
           ![c].raced = \E d \in Callers \ {c} : rlCaller[d].pc # "idle"]
    /\ UNCHANGED <<procState, authVars, poolVars, whitelistVars, workerPoolVars, rl, clock, rlLog>>

\* bucket, exists := rl.buckets[identifier]; now := time.Now()
AllowLookup(c) ==
    /\ rlCaller[c].pc = "lookup"
    /\ rlCaller' = [rlCaller EXCEPT
           ![c].pc = IF rl.buckets[BucketOf(rlCaller[c].id)].exists THEN "refill" ELSE "create",
           ![c].before = rl.buckets,
           ![c].at = clock.now]
    /\ UNCHANGED <<procState, authVars, poolVars, whitelistVars, workerPoolVars, rl, clock, rlLog,
                   rlMu>>

\* if !exists: a full bucket is stored under the identifier, replacing what
\* the map holds there; the call is granted.
AllowCreate(c) ==
    /\ rlCaller[c].pc = "create"
    /\ LET id == rlCaller[c].id
           res == AllowResult([rl.buckets EXCEPT ![BucketOf(id)] = NoBucket], id,
                              rlCaller[c].at, RequestsPerSecond)
       IN /\ rl' = [rl EXCEPT !.buckets = res.buckets]
          /\ rlCaller' = [rlCaller EXCEPT ![c].pc = "unlock",
                 ![c].refilled = res.refilled, ![c].ret = res.ret]
    /\ UNCHANGED <<procState, authVars, poolVars, whitelistVars, workerPoolVars, clock, rlLog, rlMu>>

\* The bucket exists: refill it, and take a token if there is one.
AllowRefill(c) ==
    /\ rlCaller[c].pc = "refill"
    /\ LET res == AllowResult(rl.buckets, rlCaller[c].id, rlCaller[c].at,
                              RequestsPerSecond)
       IN /\ rl' = [rl EXCEPT !.buckets = res.buckets]
          /\ rlCaller' = [rlCaller EXCEPT ![c].pc = "unlock",
                 ![c].refilled = res.refilled, ![c].ret = res.ret]
    /\ UNCHANGED <<procState, authVars, poolVars, whitelistVars, workerPoolVars, clock, rlLog, rlMu>>

\* defer rl.mu.Unlock(), and the call returns.
AllowUnlock(c) ==
    /\ rlCaller[c].pc = "unlock"
    /\ rlMu' = IF rlMu = c THEN 0 ELSE rlMu
    /\ rlLog' = Append(rlLog,
           [id |-> rlCaller[c].id, at |-> rlCaller[c].at, enabled |-> TRUE,
            caller |-> c, raced |-> rlCaller[c].raced,
            before |-> rlCaller[c].before, refilled |-> rlCaller[c].refilled,
            after |-> rl.buckets, ret |-> rlCaller[c].ret])
    /\ rlCaller' = [rlCaller EXCEPT ![c] = IdleCaller]
    /\ UNCHANGED <<procState, authVars, poolVars, whitelistVars, workerPoolVars, rl, clock>>

\* ---------------------------------------------------------- IPWhitelist
\* NewIPWhitelist: enabled is fixed here, from the length of the list given.
WhitelistEnabled(ips) == ips # {}

NewIPWhitelist(ips) ==
    /\ ~wl.made
    /\ wl' = [made |-> TRUE, enabled |-> WhitelistEnabled(ips), allowedIPs |-> ips]
    /\ UNCHANGED <<procState, authVars, poolVars, limiterVars, workerPoolVars, wlOps, wlLog>>

\* IPWhitelist.AddIP: allowedIPs[ip] = true; enabled is not written.
AddIP(ip) ==
    /\ wl.made
    /\ wlOps < MaxWhitelistOps
    /\ wl' = [wl EXCEPT !.allowedIPs = @ \cup {ip}]
    /\ wlOps' = wlOps + 1
    /\ UNCHANGED <<procState, authVars, poolVars, limiterVars, workerPoolVars, wlLog>>

\* IPWhitelist.RemoveIP: delete(allowedIPs, ip); enabled is not written.
RemoveIP(ip) ==
    /\ wl.made
    /\ wlOps < MaxWhitelistOps
    /\ wl' = [wl EXCEPT !.allowedIPs = @ \ {ip}]
    /\ wlOps' = wlOps + 1
    /\ UNCHANGED <<procState, authVars, poolVars, limiterVars, workerPoolVars, wlLog>>

\* A call of IPWhitelist.IsAllowed(ip), recorded with the set it saw.
IsAllowedCall(ip) ==
    /\ wl.made
    /\ Len(wlLog) < MaxIsAllowedCalls
    /\ wlLog' = Append(wlLog,
           [ip |-> ip, set |-> wl.allowedIPs, enabled |-> wl.enabled,
            ops |-> wlOps, ret |-> IsAllowed(wl.enabled, wl.allowedIPs, ip)])
    /\ UNCHANGED <<procState, authVars, poolVars, limiterVars, workerPoolVars, wl, wlOps>>

\* ----------------------------------------------------------- WorkerPool
\* NewWorkerPool: make(chan Task, numWorkers*2)
TaskChanCap == NumPoolWorkers * 2

\* WorkerPool.Start: one goroutine per worker, each entering its select.
WorkerPoolStart ==
    /\ ~wp.started /\ ~wp.panicked
    /\ wp' = [wp EXCEPT !.started = TRUE]
    /\ wpWorker' = [w \in PoolWorkers |-> [pc |-> "select", task |-> 0]]
    /\ UNCHANGED <<procState, authVars, poolVars, limiterVars, whitelistVars, taskChan, taskLog>>

\* The cases of Submit's select that are ready: ctx.Done() once cancelled,
\* the send while the channel is open with room, and the send on a closed
\* channel, which panics when chosen.
SubmitOutcomes(cancelled, closed, queued) ==
    {o \in {"err", "nil", "panic"} :
        \/ o = "err" /\ cancelled
        \/ o = "nil" /\ ~closed /\ queued < TaskChanCap
        \/ o = "panic" /\ closed}

\* WorkerPool.Submit(t): blocks while no case is ready, else takes any ready
\* case.
WorkerPoolSubmit(t) ==
    /\ ~wp.panicked
    /\ taskLog[t].submit = "none"
    /\ \E o \in SubmitOutcomes(wp.cancelled, wp.closed, Len(taskChan)) :
          /\ taskLog' = [taskLog EXCEPT ![t].submit = o, ![t].stopping = wp.cancelled]
          /\ taskChan' = IF o = "nil" THEN Append(taskChan, t) ELSE taskChan
          /\ wp' = [wp EXCEPT !.panicked = (o = "panic")]
    /\ UNCHANGED <<procState, authVars, poolVars, limiterVars, whitelistVars, wpWorker>>

\* worker: case <-wp.ctx.Done(): return
PoolWorkerCtxDone(w) ==
    /\ ~wp.panicked
    /\ wpWorker[w].pc = "select"
    /\ wp.cancelled
    /\ wpWorker' = [wpWorker EXCEPT ![w].pc = "done"]
    /\ UNCHANGED <<procState, authVars, poolVars, limiterVars, whitelistVars, wp, taskChan, taskLog>>

\* worker: case task := <-wp.taskChan, a task or, from the closed and drained
\* channel, nil, on which the worker returns.
PoolWorkerRecv(w) ==
    /\ ~wp.panicked
    /\ wpWorker[w].pc = "select"
    /\ \/ /\ taskChan # <<>>
          /\ wpWorker' = [wpWorker EXCEPT ![w] = [pc |-> "run", task |-> Head(taskChan)]]
          /\ taskChan' = Tail(taskChan)
       \/ /\ taskChan = <<>> /\ wp.closed
          /\ wpWorker' = [wpWorker EXCEPT ![w].pc = "done"]
          /\ UNCHANGED taskChan
    /\ UNCHANGED <<procState, authVars, poolVars, limiterVars, whitelistVars, wp, taskLog>>

\* worker: task() runs, and the loop goes round.
PoolWorkerRun(w) ==
    /\ ~wp.panicked
    /\ wpWorker[w].pc = "run"
    /\ taskLog' = [taskLog EXCEPT ![wpWorker[w].task].runs = @ + 1]
    /\ wpWorker' = [wpWorker EXCEPT ![w] = [pc |-> "select", task |-> 0]]
    /\ UNCHANGED <<procState, authVars, poolVars, limiterVars, whitelistVars, wp, taskChan>>

\* WorkerPool.Stop, first statement: wp.cancel()
StopCancel ==
    /\ wp.started /\ ~wp.panicked
    /\ wp.stopPc = "idle"
    /\ wp' = [wp EXCEPT !.cancelled = TRUE, !.stopPc = "cancelled"]
    /\ UNCHANGED <<procState, authVars, poolVars, limiterVars, whitelistVars, taskChan, wpWorker, taskLog>>

\* WorkerPool.Stop, second statement: close(wp.taskChan)
StopClose ==
    /\ ~wp.panicked
    /\ wp.stopPc = "cancelled"
    /\ wp' = [wp EXCEPT !.closed = TRUE, !.stopPc = "closed"]
    /\ UNCHANGED <<procState, authVars, poolVars, limiterVars, whitelistVars, taskChan, wpWorker, taskLog>>

\* WorkerPool.Stop, third statement: wp.wg.Wait() returns once every worker
\* has returned.
StopWait ==
    /\ ~wp.panicked
    /\ wp.stopPc = "closed"
    /\ \A w \in PoolWorkers : wpWorker[w].pc = "done"
    /\ wp' = [wp EXCEPT !.stopPc = "returned"]
    /\ UNCHANGED <<procState, authVars, poolVars, limiterVars, whitelistVars, taskChan, wpWorker, taskLog>>

\* -------------------------------------------------------- Authenticator
\* NewAuthenticator(username, password): always enabled.
NewAuthenticator(username, password) ==
    /\ ~auth.made
    /\ auth' = [made |-> TRUE, enabled |-> TRUE,
                username |-> username, password |-> password]
    /\ UNCHANGED <<procState, poolVars, limiterVars, whitelistVars, workerPoolVars, authLog>>

\* The zero value of the struct, Authenticator{}: the only disabled
\* Authenticator, since no function sets enabled to false.
ZeroAuthenticator ==
    /\ ~auth.made
    /\ auth' = [made |-> TRUE, enabled |-> FALSE, username |-> "", password |-> ""]
    /\ UNCHANGED <<procState, poolVars, limiterVars, whitelistVars, workerPoolVars, authLog>>

\* A call of Authenticator.Authenticate(u, p), recorded with what it saw.
AuthenticateCall(u, p) ==
    /\ auth.made
    /\ Len(authLog) < MaxAuthCalls
    /\ authLog' = Append(authLog,
           [u |-> u, p |-> p, enabled |-> auth.enabled,
            username |-> auth.username, password |-> auth.password,
            ret |-> Authenticate(auth.enabled, auth.username, auth.password, u, p)])
    /\ UNCHANGED <<procState, poolVars, limiterVars, whitelistVars, workerPoolVars, auth>>

\* -------------------------------------------------------- specification
Init ==
    /\ proc = "running"
    /\ panicSite = "none"
    /\ mainPc = "serving"
    /\ listening = TRUE
    /\ sess = [s \in Sessions |->
                 [pc |-> "pending", bytesIn |-> 0, bytesOut |-> 0,
                  closeCalls |-> 0, inClose |-> 0, dialFailed |-> FALSE]]
    /\ collectorChan = <<>>
    /\ collectorClosed = FALSE
    /\ normalizerOut = <<>>
    /\ outClosed = FALSE
    /\ worker = [w \in WorkerIds |-> [pc |-> "range", log |-> NoLog]]
    /\ pubPc = "select"
    /\ batch = <<>>
    /\ flushCall = NoFlush
    /\ ctxCancelled = FALSE
    /\ collectLog = <<>>
    /\ dequeued = <<>>
    /\ outDropped = {}
    /\ flushLog = <<>>
    /\ pubDequeued = <<>>
    /\ activeConn = 0
    /\ mu = 0
    /\ caller = [c \in Callers |-> [pc |-> "idle", before |-> 0, ret |-> TRUE]]
    /\ poolLog = <<>>
    /\ rl = [made |-> FALSE, enabled |-> FALSE, buckets |-> NoBuckets]
    /\ clock = [now |-> 0, steps |-> 0]
    /\ rlLog = <<>>
    /\ rlMu = 0
    /\ rlCaller = [c \in Callers |-> IdleCaller]
    /\ wl = [made |-> FALSE, enabled |-> FALSE, allowedIPs |-> {}]
    /\ wlOps = 0
    /\ wlLog = <<>>
    /\ wp = [started |-> FALSE, cancelled |-> FALSE, closed |-> FALSE,
             stopPc |-> "idle", panicked |-> FALSE]
    /\ taskChan = <<>>
    /\ wpWorker = [w \in PoolWorkers |-> [pc |-> "idle", task |-> 0]]
    /\ taskLog = [k \in Tasks |-> [submit |-> "none", stopping |-> FALSE, runs |-> 0]]
    /\ auth = [made |-> FALSE, enabled |-> FALSE, username |-> "", password |-> ""]
    /\ authLog = <<>>

\* The goroutines of the pipeline and of main.
PipelineNext ==
    \/ \E w \in WorkerIds : WorkerRecv(w)
    \/ \E w \in WorkerIds : WorkerExit(w)
    \/ \E w \in WorkerIds : WorkerSend(w)
    \/ PubCtxDone
    \/ PubRecv
    \/ PubTick
    \/ FlushReturn
    \/ ProxyStop
    \/ PublisherCancel
    \/ PublisherWait
    \/ NormalizerClose
    \/ CloseCollectorChan
    \/ MainReturn

\* The proxy process: sessions, pipeline and main.
Next ==
    \/ \E s \in Sessions : Accept(s)
    \/ \E s \in Sessions : Dial(s)
    \/ \E s \in Sessions : Read(s)
    \/ \E s \in Sessions : Write(s)
    \/ \E s \in Sessions : CloseCollect(s)
    \/ \E s \in Sessions : CloseConn(s)
    \/ PipelineNext

Spec == Init /\ [][Next]_vars

\* The pipeline and main under any caller of Collect.
NextPipeline ==
    \/ CollectCall
    \/ PipelineNext

SpecPipeline == Init /\ [][NextPipeline]_vars

\* The proxy sessions against the Collector and the Normalizer workers.
NextSessions ==
    \/ \E s \in Sessions : Accept(s)
    \/ \E s \in Sessions : Dial(s)
    \/ \E s \in Sessions : Read(s)
    \/ \E s \in Sessions : Write(s)
    \/ \E s \in Sessions : CloseCollect(s)
    \/ \E s \in Sessions : CloseConn(s)
    \/ \E w \in WorkerIds : WorkerRecv(w)
    \/ \E w \in WorkerIds : WorkerSend(w)

SpecSessions == Init /\ [][NextSessions]_vars

\* The pipeline under the end-to-end load, up to the end of the Publisher:
\* what main does after publisher.Stop() has returned changes no storage call.
NextEndToEnd ==
    \/ Submit
    \/ \E w \in WorkerIds : WorkerRecv(w)
    \/ \E w \in WorkerIds : WorkerSend(w)
    \/ PubCtxDone
    \/ PubRecv
    \/ PubTick
    \/ FlushReturn
    \/ ProxyStop
    \/ PublisherCancel

SpecEndToEnd == Init /\ [][NextEndToEnd]_vars

\* The Publisher fed by the pipeline and ended either way: by Stop, which
\* cancels its context, or by Close, which closes its input first.
NextPublisher ==
    \/ CollectCall
    \/ \E w \in WorkerIds : WorkerRecv(w)
    \/ \E w \in WorkerIds : WorkerSend(w)
    \/ PubCtxDone
    \/ PubRecv
    \/ PubTick
    \/ FlushReturn
    \/ ProxyStop
    \/ PublisherCloseIn
    \/ PublisherCancel
    \/ PublisherWait

SpecPublisher == Init /\ [][NextPublisher]_vars

\* The pipeline after Normalizer.Start(1): one worker, the first, runs.
NextSingleWorker ==
    \/ CollectCall
    \/ WorkerRecv(1)
    \/ WorkerSend(1)
    \/ PubRecv
    \/ PubTick
    \/ FlushReturn

SpecSingleWorker == Init /\ [][NextSingleWorker]_vars

\* The running Publisher, fed by the pipeline, with no shutdown.
NextTicking ==
    \/ CollectCall
    \/ \E w \in WorkerIds : WorkerRecv(w)
    \/ \E w \in WorkerIds : WorkerSend(w)
    \/ PubRecv
    \/ PubTick
    \/ FlushReturn

\* The ticker of NewPublisher fires every flush interval and the select takes
\* a case that stays ready; a storage call returns, at the latest when its
\* 30 s timeout ends it.
SpecTicking ==
    /\ Init
    /\ [][NextTicking]_vars
    /\ WF_vars(PubTick)
    /\ WF_vars(FlushReturn)

\* A ConnectionPool of PoolMax connections under concurrent callers.
NextPool ==
    \/ \E c \in Callers : AddLock(c)
    \/ \E c \in Callers : AddCheck(c)
    \/ \E c \in Callers : AddInc(c)
    \/ \E c \in Callers : RemoveLock(c)
    \/ \E c \in Callers : RemoveDec(c)
    \/ \E c \in Callers : Unlock(c)

SpecPool == Init /\ [][NextPool]_vars

\* A RateLimiter, enabled or not, under calls from two identifiers while
\* time passes.
NextLimiter ==
    \/ \E enabled \in BOOLEAN : NewRateLimiter(enabled)
    \/ \E id \in Identifiers : Allow(id)
    \/ \E d \in AdvanceSteps : Advance(d)

SpecLimiter == Init /\ [][NextLimiter]_vars

\* An IPWhitelist built from any list, then edited and queried.
NextWhitelist ==
    \/ \E ips \in SUBSET IPs : NewIPWhitelist(ips)
    \/ \E ip \in IPs : AddIP(ip)
    \/ \E ip \in IPs : RemoveIP(ip)
    \/ \E ip \in IPs : IsAllowedCall(ip)

SpecWhitelist == Init /\ [][NextWhitelist]_vars

\* A WorkerPool started, fed by concurrent submitters and stopped.
NextWorkerPool ==
    \/ WorkerPoolStart
    \/ \E t \in Tasks : WorkerPoolSubmit(t)
    \/ \E w \in PoolWorkers : PoolWorkerCtxDone(w)
    \/ \E w \in PoolWorkers : PoolWorkerRecv(w)
    \/ \E w \in PoolWorkers : PoolWorkerRun(w)
    \/ StopCancel
    \/ StopClose
    \/ StopWait

SpecWorkerPool == Init /\ [][NextWorkerPool]_vars

\* An Authenticator, built by NewAuthenticator or left at its zero value,
\* under calls with any credentials.
NextAuthenticator ==
    \/ \E u \in Usernames, p \in Passwords : NewAuthenticator(u, p)
    \/ ZeroAuthenticator
    \/ \E u \in Usernames, p \in Passwords : AuthenticateCall(u, p)

SpecAuthenticator == Init /\ [][NextAuthenticator]_vars

\* A RateLimiter under callers that run Allow concurrently, with no time
\* passing.
NextLimiterConcurrent ==
    \/ \E enabled \in BOOLEAN : NewRateLimiter(enabled)
    \/ \E c \in Callers, id \in Identifiers : AllowEnter(c, id)
    \/ \E c \in Callers : AllowLock(c)
    \/ \E c \in Callers : AllowLookup(c)
    \/ \E c \in Callers : AllowCreate(c)
    \/ \E c \in Callers : AllowRefill(c)
    \/ \E c \in Callers : AllowUnlock(c)

SpecLimiterConcurrent == Init /\ [][NextLimiterConcurrent]_vars

\* ---------------------------------------------------------------- claims
SeqsIn(q) == {q[k].seq : k \in DOMAIN q}

Calls == DOMAIN collectLog

\* The number of events session s has handed to Collect.
EmittedBy(s) == Cardinality({i \in Calls : collectLog[i].sid = s})

\* The Collect calls whose event is still in the intake queue, and those
\* whose event a worker has received.
Queued(i) == {k \in DOMAIN collectorChan : collectorChan[k].seq = i}
Received(i) == {k \in DOMAIN dequeued : dequeued[k].seq = i}

\* Every place downstream of the intake queue that holds the record of call i.
Downstream(i) ==
    \/ i \in SeqsIn(dequeued)
    \/ \E w \in WorkerIds : worker[w].log.seq = i
    \/ i \in SeqsIn(normalizerOut)
    \/ i \in SeqsIn(batch)
    \/ i \in SeqsIn(flushCall.batch)
    \/ \E f \in DOMAIN flushLog : i \in SeqsIn(flushLog[f].batch)

\* C1: a session whose dial succeeded hands exactly one event to Collect over
\* its lifetime: never more than one, and one once its connection is closed,
\* however often Close is invoked on the tracked connection.
C1_ExactlyOneEventPerSession ==
    \A s \in Sessions :
        /\ EmittedBy(s) <= 1
        /\ sess[s].pc = "closed" => EmittedBy(s) = 1

\* C2: a session that the Authenticator or the IPWhitelist rejects never
\* negotiates, never relays and never emits an event.
C2_RejectedNeverRelays ==
    \A s \in Sessions :
        ~GatesAdmit(s) =>
            /\ sess[s].pc \notin {"negotiating", "relaying", "closed"}
            /\ EmittedBy(s) = 0

\* C3: the sessions that are negotiating or relaying never outnumber the
\* configured maximum of concurrent connections.
C3_ActiveWithinMax ==
    Cardinality({s \in Sessions : sess[s].pc \in {"negotiating", "relaying"}})
        <= MaxConnections

\* C4: a Collect call on the intake queue, be it empty, partly filled or full,
\* returns nil to its caller: it neither reports an error nor waits for room.
C4_CollectReturnsNil ==
    \A i \in Calls : ~collectLog[i].closed => collectLog[i].ret = "nil"

\* Collect has returned nil on an empty, on a partly filled and on a full queue.
C4_Witness ==
    \E i, j, k \in Calls :
        /\ collectLog[i].len = 0 /\ collectLog[i].ret = "nil"
        /\ collectLog[j].len \in 1..(BufferSize - 1) /\ collectLog[j].ret = "nil"
        /\ collectLog[k].len = BufferSize /\ collectLog[k].ret = "nil"

\* C5: no state of the pipeline makes a session's Close crash: the process
\* never panics while a Close is between its hand-off and the close of the
\* underlying connection.
C5_CloseNeverCrashes ==
    \A s \in Sessions : sess[s].inClose > 0 => proc # "panicked"

\* C6: an event offered while the intake queue has a free slot is dequeued
\* exactly once with its fields intact: it is either still queued or was
\* received by a worker, once in all and equal to what was offered.
C6_AcceptedDequeuedOnce ==
    \A i \in Calls :
        (~collectLog[i].closed /\ collectLog[i].len < BufferSize) =>
            /\ Cardinality(Queued(i)) + Cardinality(Received(i)) = 1
            /\ \A k \in Queued(i) : collectorChan[k] = collectLog[i].event
            /\ \A k \in Received(i) : dequeued[k] = collectLog[i].event

\* Two events offered with room in the queue have both been received by workers.
C6_Witness ==
    \E i, j \in Calls :
        /\ i # j
        /\ collectLog[i].len < BufferSize /\ collectLog[j].len < BufferSize
        /\ collectLog[j].len > 0
        /\ Received(i) # {} /\ Received(j) # {}

\* The event of a Collect call made at capacity is nowhere in the pipeline.
C7_DroppedNowhere ==
    \A i \in Calls :
        collectLog[i].len >= BufferSize => Queued(i) = {} /\ ~Downstream(i)

\* C7: a Collect call made with the intake queue at capacity leaves the
\* queue's contents and order unchanged, and the offered event never reaches
\* a worker, the output queue or storage.
C7_FullQueueUnchanged ==
    /\ []C7_DroppedNowhere
    /\ [][(Len(collectLog') > Len(collectLog) /\ Len(collectorChan) >= BufferSize)
            => collectorChan' = collectorChan]_vars

\* An event was offered at capacity, and the queue it met has since been
\* drained into storage.
C7_Witness ==
    \E i \in Calls :
        /\ collectLog[i].len = BufferSize
        /\ collectLog[i].outcome = "dropped"
        /\ collectorChan = <<>>
        /\ \E f \in DOMAIN flushLog : ~flushLog[f].err

\* C8: the output queue is closed only after every worker has exited, so
\* that no worker ever holds a record to enqueue, or sends one, when the
\* output queue is already closed.
C8_NoSendOnClosedOutput ==
    /\ outClosed => \A w \in WorkerIds : worker[w].pc # "send"
    /\ panicSite # "Normalizer.process"

\* C9: shutdown stops the Publisher last, after the intake queue was closed
\* and drained by the workers: the Publisher is never stopped while an event
\* remains in the intake queue or in a worker's hands.
C9_PublisherStopsLast ==
    pubPc = "done" =>
        /\ collectorChan = <<>>
        /\ \A w \in WorkerIds : worker[w].pc # "send"

\* C10: the batch pending at cancellation is passed to storage once, under a
\* call context that is still live.
C10_ShutdownFlushLive ==
    /\ Cardinality({f \in DOMAIN flushLog : flushLog[f].trigger = "shutdown"}) <= 1
    /\ \A f \in DOMAIN flushLog :
           flushLog[f].trigger = "shutdown" =>
               flushLog[f].batch # <<>> /\ flushLog[f].live

\* Every record of call i that is on its way from a worker to storage or was
\* passed to storage, as <<place, position>> pairs.
RecordsOf(i) ==
    {<<"worker", w>> : w \in {w \in WorkerIds : worker[w].log.seq = i}}
    \cup {<<"out", k>> : k \in {k \in DOMAIN normalizerOut : normalizerOut[k].seq = i}}
    \cup {<<"batch", k>> : k \in {k \in DOMAIN batch : pubPc # "flush" /\ batch[k].seq = i}}
    \cup {<<"call", k>> : k \in {k \in DOMAIN flushCall.batch : flushCall.batch[k].seq = i}}
    \cup UNION {{<<"stored", f, k>> : k \in {k \in DOMAIN flushLog[f].batch :
                                                 flushLog[f].batch[k].seq = i}} :
                f \in DOMAIN flushLog}

\* Every record that a worker holds, that is queued, batched or passed to storage.
AllRecords ==
    {worker[w].log : w \in {w \in WorkerIds : worker[w].pc = "send"}}
    \cup {normalizerOut[k] : k \in DOMAIN normalizerOut}
    \cup {batch[k] : k \in DOMAIN batch}
    \cup UNION {{flushLog[f].batch[k] : k \in DOMAIN flushLog[f].batch} :
                f \in DOMAIN flushLog}

\* C11: every batch passed to storage holds between 1 and batchSize records,
\* a size-triggered one exactly batchSize, and whenever the Publisher waits
\* in its select the batch in memory holds fewer than batchSize records.
C11_BatchWithinSize ==
    /\ \A f \in DOMAIN flushLog :
         /\ Len(flushLog[f].batch) \in 1..BatchSize
         /\ flushLog[f].trigger = "size" => Len(flushLog[f].batch) = BatchSize
    /\ pubPc = "flush" => Len(flushCall.batch) \in 1..BatchSize
    /\ pubPc = "select" => Len(batch) < BatchSize

\* Storage has received a full batch by the size trigger and a partial one
\* by the timer, and the Publisher waits for its next input.
C11_Witness ==
    /\ \E f \in DOMAIN flushLog :
         flushLog[f].trigger = "size" /\ Len(flushLog[f].batch) = BatchSize
    /\ \E f \in DOMAIN flushLog :
         flushLog[f].trigger = "timer" /\ Len(flushLog[f].batch) < BatchSize
    /\ pubPc = "select"

\* No storage call, in progress or completed, carries an empty batch.
C12_NoEmptyFlush ==
    /\ \A f \in DOMAIN flushLog : flushLog[f].batch # <<>>
    /\ pubPc = "flush" => flushCall.batch # <<>>

\* C12: a timer tick flushes the pending batch exactly when it is non-empty:
\* storage is never called with an empty batch, whatever the trigger, and a
\* tick that finds the batch empty changes nothing of the Publisher.
C12_TickFlushesIffNonEmpty ==
    /\ []C12_NoEmptyFlush
    /\ [][PubTick =>
            IF batch = <<>>
              THEN UNCHANGED <<pubPc, batch, flushCall, flushLog>>
              ELSE pubPc' = "flush" /\ flushCall'.batch = batch
                   /\ flushCall'.trigger = "timer"]_vars

\* The timer has flushed a partial batch, and the Publisher waits with an
\* empty batch for the next tick.
C12_Witness ==
    /\ \E f \in DOMAIN flushLog :
         flushLog[f].trigger = "timer" /\ flushLog[f].batch # <<>>
    /\ pubPc = "select" /\ batch = <<>>
    /\ ~ctxCancelled

\* The records of a batch whose save failed are in no later batch.
C13_FailedBatchGone ==
    \A f \in DOMAIN flushLog :
        flushLog[f].err =>
            \A i \in SeqsIn(flushLog[f].batch) :
                /\ i \notin SeqsIn(batch)
                /\ i \notin SeqsIn(flushCall.batch)
                /\ \A g \in DOMAIN flushLog :
                       g # f => i \notin SeqsIn(flushLog[g].batch)

\* C13: when the storage call fails, the batch is discarded: its records are
\* never passed to storage again, the next batch starts empty, the Publisher
\* returns to its loop, and the failure touches neither the intake queue, the
\* workers nor the process.
C13_FailedFlushDiscarded ==
    /\ []C13_FailedBatchGone
    /\ [][(Len(flushLog') > Len(flushLog) /\ flushLog'[Len(flushLog')].err) =>
            /\ batch' = <<>>
            /\ flushLog'[Len(flushLog')].trigger \in {"size", "timer"}
                   => pubPc' = "select"
            /\ UNCHANGED <<collectorChan, worker, normalizerOut, proc, panicSite>>]_vars

\* A save failed under a live context, and a later batch was saved.
C13_Witness ==
    \E f, g \in DOMAIN flushLog :
        /\ f < g
        /\ flushLog[f].err /\ flushLog[f].live
        /\ ~flushLog[g].err

\* All E2EEvents events were submitted and each reached storage: none dropped.
AllStored ==
    \A n \in 1..E2EEvents :
        \E f \in DOMAIN flushLog : n \in SeqsIn(flushLog[f].batch)

\* Storage received exactly three bulk-inserts: two size-triggered full
\* batches and the remainder by the timer or at shutdown.
ThreeBulkInserts ==
    /\ Len(flushLog) = 3
    /\ Cardinality({f \in DOMAIN flushLog :
           flushLog[f].trigger = "size" /\ Len(flushLog[f].batch) = BatchSize}) = 2
    /\ Cardinality({f \in DOMAIN flushLog :
           /\ flushLog[f].trigger \in {"timer", "shutdown"}
           /\ Len(flushLog[f].batch) = E2EEvents - 2 * BatchSize}) = 1

\* The timer flushed nothing before the last record had reached the Publisher.
NoEarlyTick ==
    \A f \in DOMAIN flushLog :
        flushLog[f].trigger = "timer" => f = Len(flushLog)

\* C14 as stated: E2EEvents events, none dropped, give exactly three
\* bulk-inserts, two size-triggered full batches and the remainder by timer
\* or shutdown.
C14_ThreeBulkInserts == AllStored => ThreeBulkInserts

\* C14, with the timing it rests on: when no tick flushes a partial batch
\* before the last record has reached the Publisher, E2EEvents events, none
\* dropped, give exactly two size-triggered full batches and then the
\* remainder by timer or shutdown.
C14_ThreeBulkInsertsNoEarlyTick == (AllStored /\ NoEarlyTick) => ThreeBulkInserts

\* All events were saved in three bulk-inserts, the last one by the timer.
C14_Witness ==
    /\ AllStored /\ NoEarlyTick
    /\ Len(flushLog) = 3
    /\ flushLog[3].trigger = "timer"
    /\ \A f \in DOMAIN flushLog : ~flushLog[f].err

\* C15: each event is received at most once, a worker at a time, and no two
\* records of one event exist anywhere between the workers and storage.
C15_DequeuedByOneWorker ==
    \A i \in Calls :
        /\ Cardinality(Received(i)) <= 1
        /\ Cardinality(RecordsOf(i)) <= 1
        /\ Queued(i) # {} => Received(i) = {} /\ RecordsOf(i) = {}

\* Two workers hold the records of two events at once, and an earlier event
\* has reached storage.
C15_Witness ==
    /\ \A w \in WorkerIds : worker[w].pc = "send"
    /\ \A v, w \in WorkerIds : v # w => worker[v].log.seq # worker[w].log.seq
    /\ flushLog # <<>>

\* C16: every accepted event is taken by a worker before the process ends,
\* the events queued when shutdown begins included.
C16_AcceptedEventuallyTaken ==
    proc = "exited" =>
        \A i \in Calls : collectLog[i].outcome = "sent" => Received(i) # {}

\* The nine fields that a record takes from its event.
SameFields(e, r) ==
    /\ r.SourceIP = e.SourceIP
    /\ r.DestinationIP = e.DestinationIP
    /\ r.Domain = e.Domain
    /\ r.Port = e.Port
    /\ r.Timestamp = e.Timestamp
    /\ r.LatencyMs = e.LatencyMs
    /\ r.BytesIn = e.BytesIn
    /\ r.BytesOut = e.BytesOut
    /\ r.Protocol = e.Protocol

\* C17: every record built by a worker carries the nine fields of the event
\* it was built from, the domain as it was given, and nothing else of it.
C17_RecordMatchesEvent ==
    \A r \in AllRecords :
        /\ r.seq \in Calls
        /\ SameFields(collectLog[r.seq].event, r)
        /\ DOMAIN r = DOMAIN collectLog[r.seq].event \cup {"ID", "CreatedAt", "DeletedAt"}

\* Storage holds a record with a domain, one without, and records whose byte
\* counters differ.
C17_Witness ==
    LET stored == UNION {{flushLog[f].batch[k] : k \in DOMAIN flushLog[f].batch} :
                         f \in DOMAIN flushLog}
    IN /\ \E r \in stored : r.Domain # ""
       /\ \E r \in stored : r.Domain = ""
       /\ \E r \in stored : r.BytesIn # r.BytesOut

\* No worker has left its loop while the intake queue was open or held events.
C18_ExitOnlyWhenDrained ==
    \A w \in WorkerIds :
        worker[w].pc = "exited" => collectorClosed /\ collectorChan = <<>>

\* C18: once the intake queue is closed, the workers take the events still
\* queued, turn them into records and then terminate: no worker leaves its
\* loop while the queue is open or holds events, no worker crashes on an event
\* it took from the closed queue, and when the process has returned after the
\* close, the queue is empty and no worker is left with a record it has not
\* sent.
C18_ClosedQueueDrained ==
    /\ C18_ExitOnlyWhenDrained
    /\ collectorClosed => panicSite # "Normalizer.process"
    /\ (collectorClosed /\ proc = "exited") =>
          /\ collectorChan = <<>>
          /\ \A w \in WorkerIds : worker[w].log = NoLog

\* C19: the counter of active connections stays within 0..max under every
\* interleaving of AddConnection and RemoveConnection, and a RemoveConnection
\* at zero leaves it at zero.
C19_CounterWithinBounds ==
    /\ activeConn \in 0..PoolMax
    /\ \A k \in DOMAIN poolLog :
         (poolLog[k].op = "remove" /\ poolLog[k].before = 0) => poolLog[k].after = 0

\* The pool was full while a second caller waited for the lock, and a
\* RemoveConnection has found the counter at zero.
C19_Witness ==
    /\ activeConn = PoolMax
    /\ \E k \in DOMAIN poolLog : poolLog[k].op = "remove" /\ poolLog[k].before = 0
    /\ \E c \in Callers : caller[c].pc = "addCheck"

\* C20: AddConnection returns true and adds one exactly when the counter was
\* below max, and otherwise returns false and changes nothing.
C20_AddIffBelowMax ==
    \A k \in DOMAIN poolLog :
        poolLog[k].op = "add" =>
            /\ poolLog[k].ret <=> poolLog[k].before < PoolMax
            /\ poolLog[k].after = poolLog[k].before + (IF poolLog[k].ret THEN 1 ELSE 0)

\* From an empty pool: max calls succeeded, the next failed, and after one
\* RemoveConnection one more succeeded.
C20_Witness ==
    /\ Len(poolLog) = PoolMax + 3
    /\ \A k \in 1..PoolMax : poolLog[k].op = "add" /\ poolLog[k].ret
    /\ poolLog[PoolMax + 1].op = "add" /\ ~poolLog[PoolMax + 1].ret
    /\ poolLog[PoolMax + 2].op = "remove"
    /\ poolLog[PoolMax + 3].op = "add" /\ poolLog[PoolMax + 3].ret
    /\ activeConn = PoolMax

\* C21: the counter of active connections equals the number of sessions that
\* are negotiating or relaying: an admitted session holds one slot until it
\* closes, and the counter is back at zero once every session has closed.
C21_CounterTracksSessions ==
    activeConn = Cardinality({s \in Sessions : sess[s].pc \in {"negotiating", "relaying"}})

\* The intake queue and the log of Collect calls are left as they were.
IntakeUnchanged == UNCHANGED <<collectorChan, collectLog>>

\* C30: a session whose dial failed holds no tracked connection: it never
\* relays, never closes one and never emits an event, and the step that
\* fails the dial leaves the intake queue unchanged.
C30_DialFailureEmitsNothing ==
    /\ [](\A s \in Sessions :
            sess[s].dialFailed =>
                /\ sess[s].pc = "dialfailed"
                /\ sess[s].closeCalls = 0
                /\ EmittedBy(s) = 0)
    /\ [][\A s \in Sessions :
            (~sess[s].dialFailed /\ sess'[s].dialFailed) => IntakeUnchanged]_vars

\* One session's dial failed while another session relayed, closed and had
\* its event queued.
C30_Witness ==
    /\ \E s \in Sessions : sess[s].dialFailed
    /\ \E s \in Sessions : sess[s].pc = "closed" /\ EmittedBy(s) = 1
    /\ collectorChan # <<>>

\* The capacity c and the single token as token counts, and a <= b on token
\* counts.
Capacity == Float64(RequestsPerSecond)
One == Float64(1)
AtMost(a, b) == ~FloatLess(b, a)

\* The Allow calls made to an enabled limiter, and those among them that
\* identifier id made before call k.
LimitedCalls == {k \in DOMAIN rlLog : rlLog[k].enabled}
EarlierCalls(k) == {j \in LimitedCalls : j < k /\ rlLog[j].id = rlLog[k].id}

\* C22: the first Allow of an identifier returns true and leaves its bucket
\* at capacity; while no time passes, the next c calls of that identifier
\* return true and the one after them returns false.
C22_FirstCallFreeThenBurst ==
    \A k \in LimitedCalls :
        /\ EarlierCalls(k) = {} =>
               /\ rlLog[k].ret
               /\ rlLog[k].after[rlLog[k].id].tokens = Capacity
        /\ (\A j \in EarlierCalls(k) : rlLog[j].at = rlLog[k].at) =>
               (rlLog[k].ret <=> Cardinality(EarlierCalls(k)) <= RequestsPerSecond)

\* One identifier has made c + 2 calls in one instant: the last was denied.
C22_Witness ==
    \E k \in LimitedCalls :
        /\ Cardinality(EarlierCalls(k)) = RequestsPerSecond + 1
        /\ \A j \in EarlierCalls(k) : rlLog[j].at = rlLog[k].at /\ rlLog[j].ret
        /\ ~rlLog[k].ret

\* The last call before k that identifier of call k was granted.
LastGrant(k) ==
    CHOOSE g \in EarlierCalls(k) :
        /\ rlLog[g].ret
        /\ \A j \in EarlierCalls(k) : rlLog[j].ret => j <= g

\* C23: the credit of a bucket over an interval does not depend on how often
\* the bucket is touched in it: at every call the refilled count is what a
\* single refill over the whole time since the identifier's last grant gives.
C23_CreditIndependentOfTouches ==
    \A k \in LimitedCalls :
        EarlierCalls(k) # {} =>
            LET g == LastGrant(k)
                id == rlLog[k].id
            IN rlLog[k].refilled =
                   Refill(rlLog[g].after[id].tokens, ElapsedMs(rlLog[k].at, rlLog[g].at),
                          rlLog[g].after[id].ratePerMs, RequestsPerSecond)

\* C24: every bucket holds between 0 and capacity tokens; a call on an
\* existing bucket is granted exactly when the refilled count is at least
\* one token, a granted call takes exactly one token and a denied call none.
C24_TokensWithinCapacity ==
    /\ \A i \in Identifiers :
         /\ \A d \in Digits : rl.buckets[i].tokens[d] \in 0..(LimbBase - 1)
         /\ AtMost(rl.buckets[i].tokens, Capacity)
    /\ \A k \in LimitedCalls :
         EarlierCalls(k) # {} =>
             /\ AtMost(rlLog[k].refilled, Capacity)
             /\ rlLog[k].ret <=> AtMost(One, rlLog[k].refilled)
             /\ rlLog[k].refilled =
                    IF rlLog[k].ret
                      THEN ExactAdd(rlLog[k].after[rlLog[k].id].tokens, One)
                      ELSE rlLog[k].after[rlLog[k].id].tokens

\* A call was denied on a part of a token and a later call of the same
\* identifier was granted after a refill, a call was granted on a count that
\* is no whole number and left a part of a token, and a refill was cut at
\* capacity.
C24_Witness ==
    /\ \E j, k \in LimitedCalls :
         /\ j \in EarlierCalls(k)
         /\ ~rlLog[j].ret /\ rlLog[j].refilled # Nat2Limbs(0)
         /\ rlLog[k].ret
    /\ \E k \in LimitedCalls :
         /\ rlLog[k].ret
         /\ rlLog[k].after[rlLog[k].id].tokens # Nat2Limbs(0)
         /\ FloatLess(rlLog[k].after[rlLog[k].id].tokens, One)
    /\ \E k \in LimitedCalls :
         LET b == rlLog[k].before[rlLog[k].id]
         IN /\ b.exists
            /\ FloatLess(Capacity,
                         ExactAdd(b.tokens,
                                  TokensToAdd(ElapsedMs(rlLog[k].at, b.lastTime),
                                              b.ratePerMs)))
            /\ rlLog[k].refilled = Capacity

\* C25: Allow(a) touches only the bucket of a: the bucket of every other
\* identifier is as before, a new identifier is granted whatever the state of
\* the other buckets, and no bucket that exists is ever removed.
C25_AllowTouchesOwnBucketOnly ==
    \A k \in DOMAIN rlLog :
        /\ \A i \in Identifiers :
             /\ i # rlLog[k].id => rlLog[k].after[i] = rlLog[k].before[i]
             /\ rlLog[k].before[i].exists => rlLog[k].after[i].exists
        /\ ~rlLog[k].before[rlLog[k].id].exists => rlLog[k].ret
        /\ k > 1 => rlLog[k].before = rlLog[k - 1].after

\* A new identifier was granted while the bucket of another identifier was
\* exhausted, and that bucket was still exhausted at its next call.
C25_Witness ==
    \E j, k \in LimitedCalls :
        /\ j < k
        /\ rlLog[j].id # rlLog[k].id
        /\ ~rlLog[j].before[rlLog[j].id].exists /\ rlLog[j].ret
        /\ rlLog[j].before[rlLog[k].id].exists
        /\ FloatLess(rlLog[j].before[rlLog[k].id].tokens, One)
        /\ ~rlLog[k].ret

\* C26: a disabled limiter returns true on every call and keeps no books: no
\* bucket is created or modified.
C26_DisabledAllowsAll ==
    /\ (rl.made /\ ~rl.enabled) => rl.buckets = NoBuckets
    /\ \A k \in DOMAIN rlLog :
         ~rlLog[k].enabled =>
             /\ rlLog[k].ret
             /\ rlLog[k].after = rlLog[k].before

\* A disabled limiter has answered more calls than an enabled one grants in
\* one burst, from both identifiers.
C26_Witness ==
    /\ rl.made /\ ~rl.enabled
    /\ Len(rlLog) > RequestsPerSecond + 1
    /\ \A i \in Identifiers : \E k \in DOMAIN rlLog : rlLog[k].id = i
    /\ \A k \in DOMAIN rlLog : rlLog[k].ret

\* C27: whenever the allow-list set is empty, configured empty or emptied by
\* RemoveIP, IsAllowed returns true for every IP.
C27_EmptySetAllowsAll ==
    \A k \in DOMAIN wlLog : wlLog[k].set = {} => wlLog[k].ret

\* C28: AddIP and RemoveIP take effect: with a non-empty set IsAllowed(ip) is
\* true exactly for the members, also on a whitelist constructed from an
\* empty list and filled by AddIP.
C28_MembersExactly ==
    \A k \in DOMAIN wlLog :
        wlLog[k].set # {} => (wlLog[k].ret <=> wlLog[k].ip \in wlLog[k].set)

\* C29: by the time Stop returns, every task for which Submit returned nil
\* has been executed exactly once, in every interleaving.
C29_AcceptedTasksRunOnce ==
    wp.stopPc = "returned" =>
        \A t \in Tasks : taskLog[t].submit = "nil" => taskLog[t].runs = 1

\* The records of the storage calls in log, batch after batch.
RECURSIVE Flat(_)
Flat(log) == IF log = <<>> THEN <<>> ELSE log[1].batch \o Flat(Tail(log))

\* Every record the Publisher has passed to storage so far, the call in
\* progress included.
Passed == Flat(flushLog) \o flushCall.batch

IsPrefix(p, q) == Len(p) <= Len(q) /\ \A k \in DOMAIN p : p[k] = q[k]

\* C31: the records passed to storage, batch after batch and in order inside
\* each batch, are the records the Publisher dequeued from the output queue,
\* in the order it dequeued them.
C31_StorageOrderIsDequeueOrder == IsPrefix(Passed, pubDequeued)

\* Two storage calls have carried three records that the Publisher dequeued
\* in another order than Collect accepted them.
C31_Witness ==
    /\ Len(flushLog) >= 2
    /\ Len(Flat(flushLog)) >= 3
    /\ pubDequeued[1].seq > pubDequeued[2].seq

\* C32: a worker never blocks on the output queue: holding a record it can
\* always take its send step, which on a full output queue drops the record
\* and returns the worker to the intake queue, from which it can receive
\* whenever an event is queued; a dropped record never reaches the Publisher
\* or storage.
C32_WorkerDropsOnFullOutput ==
    /\ \A w \in WorkerIds :
         (Running /\ worker[w].pc = "send") => ENABLED WorkerSend(w)
    /\ \A w \in WorkerIds :
         (Running /\ worker[w].pc = "range" /\ collectorChan # <<>>)
             => ENABLED WorkerRecv(w)
    /\ \A d \in outDropped :
         /\ d.seq \notin SeqsIn(normalizerOut) \cup SeqsIn(pubDequeued) \cup SeqsIn(Passed)
         /\ \A w \in WorkerIds : worker[w].log.seq # d.seq

\* A worker dropped a record on the full output queue while the Publisher
\* was inside a storage call; since then the workers have drained the intake
\* queue and a record received after the dropped one has reached storage.
C32_Witness ==
    \E d \in outDropped :
        /\ d.flushing
        /\ collectorChan = <<>>
        /\ \A w \in WorkerIds : worker[w].pc = "range"
        /\ \E j \in SeqsIn(Passed) : j > d.seq

\* C33: on an enabled Authenticator, Authenticate(user, pass) returns true
\* exactly when user is the configured username and pass the configured
\* password; on a disabled one it returns true for every pair; no call
\* changes the Authenticator.
C33_ExactMatchOrDisabled ==
    /\ [](\A k \in DOMAIN authLog :
             authLog[k].ret <=>
                 (~authLog[k].enabled
                  \/ (authLog[k].u = authLog[k].username
                      /\ authLog[k].p = authLog[k].password)))
    /\ [][Len(authLog') > Len(authLog) => auth' = auth]_vars

\* An enabled Authenticator has refused a pair of which only the user name
\* matched and then accepted the configured pair.
C33_Witness ==
    /\ auth.enabled
    /\ Len(authLog) = 2
    /\ authLog[1].u = auth.username /\ authLog[1].p # auth.password
    /\ ~authLog[1].ret
    /\ authLog[2].u = auth.username /\ authLog[2].p = auth.password
    /\ authLog[2].ret

\* C34: the byte counts in a session's event are the totals read from and
\* written to the destination connection over the whole session, also when
\* a relay direction is still at work while Close builds the event: once the
\* connection is closed, the event of its one Close carries the final counts.
C34_EventCarriesAllBytes ==
    \A i \in Calls :
        LET s == collectLog[i].sid
        IN (s \in Sessions /\ sess[s].pc = "closed" /\ sess[s].closeCalls = 1
                /\ sess[s].inClose = 0)
              => /\ collectLog[i].event.BytesIn = sess[s].bytesIn
                 /\ collectLog[i].event.BytesOut = sess[s].bytesOut

\* C35: the event of a session from client address A proxied to destination
\* B on port P carries source IP A, destination IP B and destination port P.
C35_SourceIsClient ==
    \A i \in Calls :
        LET s == collectLog[i].sid
        IN s \in Sessions =>
              /\ collectLog[i].event.SourceIP = ClientIP(s)
              /\ collectLog[i].event.DestinationIP = DestHost(s)
              /\ collectLog[i].event.Port = DestPort(s)

\* C36: once the Publisher has terminated, by cancellation or because its
\* input was closed, the storage calls carry every record it dequeued exactly
\* once, each in a size-, timer- or shutdown-triggered batch.
C36_TerminatedPublisherFlushedAll ==
    pubPc = "done" =>
        /\ Flat(flushLog) = pubDequeued
        /\ \A i, j \in DOMAIN pubDequeued : i # j => pubDequeued[i].seq # pubDequeued[j].seq
        /\ \A k \in DOMAIN flushLog :
              flushLog[k].trigger \in {"size", "timer", "shutdown", "closed"}

\* The Publisher has terminated on its closed input after a size-triggered
\* and a final flush, three records in all.
C36_Witness ==
    /\ pubPc = "done"
    /\ outClosed
    /\ Len(pubDequeued) = 3
    /\ \E j, k \in DOMAIN flushLog :
          flushLog[j].trigger = "size" /\ flushLog[k].trigger \in {"shutdown", "closed"}

\* C37: a record the running Publisher has dequeued is eventually passed to
\* storage, whether or not another record ever arrives: the flush timer
\* flushes a partial batch.
C37_DequeuedEventuallyFlushed ==
    \A n \in 1..MaxEvents :
        (n \in SeqsIn(pubDequeued)) ~> (n \in SeqsIn(Passed))

\* With nothing left to arrive, the timer has flushed a batch that was not
\* full, and nothing waits in the Publisher's batch.
C37_Witness ==
    /\ Len(collectLog) = MaxEvents
    /\ collectorChan = <<>> /\ normalizerOut = <<>>
    /\ \A w \in WorkerIds : worker[w].pc = "range"
    /\ pubPc = "select" /\ batch = <<>>
    /\ flushLog # <<>>
    /\ flushLog[Len(flushLog)].trigger = "timer"
    /\ Len(flushLog[Len(flushLog)].batch) < BatchSize

\* The completed calls of an enabled limiter for identifier i.
CallsFor(i) == {k \in DOMAIN rlLog : rlLog[k].enabled /\ rlLog[k].id = i}

\* C38: when several callers run Allow concurrently for the same unseen
\* identifier with no time elapsing, one bucket is created for it, by one
\* call, and at most capacity + 1 of the calls are granted.
C38_OneBucketUnderConcurrency ==
    \A i \in Identifiers :
        /\ Cardinality({k \in CallsFor(i) : ~rlLog[k].before[i].exists}) <= 1
        /\ CallsFor(i) # {} => rl.buckets[i].exists
        /\ Cardinality({k \in CallsFor(i) : rlLog[k].ret}) <= RequestsPerSecond + 1

\* Two callers have raced for one identifier: four calls are complete, the
\* first of them met another caller inside Allow, capacity + 1 were granted
\* and one was denied.
C38_Witness ==
    \E i \in Identifiers :
        /\ Cardinality(CallsFor(i)) = RequestsPerSecond + 2
        /\ \A c \in Callers : \E k \in CallsFor(i) : rlLog[k].caller = c
        /\ \E k \in CallsFor(i) : ~rlLog[k].before[i].exists /\ rlLog[k].raced
        /\ Cardinality({k \in CallsFor(i) : rlLog[k].ret}) = RequestsPerSecond + 1
        /\ \E k \in CallsFor(i) : ~rlLog[k].ret

\* No event and no record has been dropped so far.
NoDrops ==
    /\ \A i \in Calls : collectLog[i].outcome = "sent"
    /\ outDropped = {}

\* The records that have entered the output queue, in the order they entered.
EnteredOut == pubDequeued \o normalizerOut

\* C39: with one Normalizer worker and no drops, records enter the output
\* queue and reach storage in the order in which Collect accepted their
\* events: the k-th record to enter the output queue, and the k-th record
\* passed to storage, is that of the k-th Collect call.
C39_SingleWorkerFifo ==
    NoDrops =>
        /\ \A k \in DOMAIN EnteredOut : EnteredOut[k].seq = k
        /\ \A k \in DOMAIN Passed : Passed[k].seq = k

\* Three events went through one worker without a drop and reached storage
\* in two calls or more.
C39_Witness ==
    /\ NoDrops
    /\ Len(Flat(flushLog)) = 3
    /\ Len(flushLog) >= 2
    /\ \A w \in WorkerIds \ {1} : worker[w].pc = "range"

\* C40: a Submit that runs while or after Stop runs never crashes the
\* process and never puts its task on the task channel: it returns the
\* pool's cancellation error.
C40_SubmitAfterStopReturnsError ==
    /\ ~wp.panicked
    /\ \A t \in Tasks :
         (taskLog[t].submit # "none" /\ taskLog[t].stopping) => taskLog[t].submit = "err"

====
